---- MODULE Spec2Model ----
(***************************************************************************)
(* Model of the Minesweeper helper (main program file and shellcode note). *)
(* The operator-side program is sequential; the only concurrency is the    *)
(* thread it injects into the target process.  Windows API calls that can  *)
(* fail are modelled with both outcomes.                                   *)
(*                                                                         *)
(* 32-bit quantities (DWORD, int, addresses) are pairs <<hi, lo>> of       *)
(* 16-bit halves, so that arithmetic modulo 2^32 can be carried out        *)
(* without leaving the checker's integer range.                            *)
(***************************************************************************)
EXTENDS Integers, Sequences, FiniteSets, TLC

VARIABLES
    pc,                 \* position of the operator-side program
    target,             \* the game held in the target process's memory
    input,              \* main: the user's selection
    debug,              \* global debug flag
    MineSweeperPID,     \* main: PID found by GetProcessPID
    baseAddr,           \* main: module base address (32-bit pair)
    numMines,           \* main: number of mines read from the target
    height,             \* main: height read from the target
    width,              \* main: width read from the target
    mineField,          \* main: buff, as a function from byte index to byte
    exitCode,           \* value returned by main ("none" while running)
    openHandles,        \* process handles obtained by OpenProcess and not closed
    openSnapshots,      \* toolhelp snapshot handles not closed
    out,                \* what PrintMineField printed in the current action
    mineLocations,      \* FlagAllMines: the malloc'ed array (capacity numMines)
    minesFound,         \* FlagAllMines: number of mines found
    foundExplodedMine,  \* FlagAllMines: did the scan find an exploded mine
    errorCode,          \* FlagAllMines: the return code
    i,                  \* FlagAllMines: index of the flagging loop
    spaceForShellcode,  \* FlagAllMines: address of the remote code region
    localFrees,         \* FlagAllMines: number of free(mineLocations) calls
    heapCorrupt,        \* FlagAllMines: a store went past the end of mineLocations
    regions,            \* target: state of the remote code and argument regions
    remoteCode,         \* target: bytes written to the code region
    remoteArgs,         \* target: record held by the argument region
    trace,              \* remote operations issued by the current FlagAllMines run
    threads,            \* target: the injected threads of the current run
    famRet              \* value FlagAllMines returned (-1 before it returns)

mainVars == <<target, input, debug, MineSweeperPID, baseAddr, numMines, height, width,
              mineField, exitCode, openHandles, openSnapshots, out>>
famVars == <<mineLocations, minesFound, foundExplodedMine, errorCode, i,
             spaceForShellcode, localFrees, heapCorrupt, famRet>>
remVars == <<regions, remoteCode, remoteArgs, trace, threads>>
vars == <<pc, mainVars, famVars, remVars>>

----------------------------------------------------------------------------
(* Program constants (the #define lines).                                  *)

FLAG_TILE_FUNCTION == 14159
MINEFIELD_OFFSET == 21312
MINEFIELD_SIZE == 863
BUFF_SIZE == 1024
MINE == 128
REVEALED_TILE == 64
UNCLICKED_SPACE == 15
FLAG == 14
QUESTION_MARK == 13
EXPLODED_MINE == 204
WRONG_MINE == 11
SHELLCODE_LENGTH == 23
SHELLCODE_CALL_OFFSET == 17
INST_AFTER_CALL_OFFSET == 21
ROW_PITCH == 32
WAIT_MS == 1000

----------------------------------------------------------------------------
(* Bounds of the model.                                                    *)

MaxCells == 3        \* FlagAllMines inputs: grids of at most this many cells
MaxNumMines == 2     \* FlagAllMines inputs: numMines in 0..MaxNumMines
MaxHandles == 1      \* OpenProcess fails once this many handles are leaked
MaxSnapshots == 1    \* CreateToolhelp32Snapshot fails once this many are leaked
MaxEntries == 2      \* lookups: process and module lists of at most this many entries

----------------------------------------------------------------------------
(* C operators on bytes.                                                   *)

RECURSIVE BitAnd(_, _)
BitAnd(a, b) ==
    IF a = 0 \/ b = 0 THEN 0
    ELSE (a % 2) * (b % 2) + 2 * BitAnd(a \div 2, b \div 2)

RECURSIVE BitXor(_, _)
BitXor(a, b) ==
    IF a = 0 THEN b
    ELSE IF b = 0 THEN a
    ELSE ((a + b) % 2) + 2 * BitXor(a \div 2, b \div 2)

RECURSIVE BitOr(_, _)
BitOr(a, b) ==
    IF a = 0 THEN b
    ELSE IF b = 0 THEN a
    ELSE (IF a % 2 = 1 \/ b % 2 = 1 THEN 1 ELSE 0) + 2 * BitOr(a \div 2, b \div 2)

(* 32-bit arithmetic on <<hi, lo>> pairs of 16-bit halves.                 *)
Word(n) == <<n \div 65536, n % 65536>>

Add32(a, b) ==
    LET lo == a[2] + b[2]
    IN  <<(a[1] + b[1] + (lo \div 65536)) % 65536, lo % 65536>>

Sub32(a, b) ==
    LET borrow == IF a[2] < b[2] THEN 1 ELSE 0
    IN  <<(a[1] - b[1] - borrow + 65536) % 65536, (a[2] - b[2] + 65536) % 65536>>

(* The bytes of a 32-bit value as they lie in x86 memory.                  *)
MemoryBytes(v) == <<v[2] % 256, v[2] \div 256, v[1] % 256, v[1] \div 256>>

----------------------------------------------------------------------------
(* PrintMineField: the classification chain and the printed rows.          *)

DigitChars == <<"0", "1", "2", "3", "4", "5", "6", "7", "8", "9">>

(* printf("%d", n) for n >= 0, as a sequence of characters.                *)
RECURSIVE Decimal(_)
Decimal(n) ==
    IF n < 10 THEN <<DigitChars[n + 1]>>
    ELSE Decimal(n \div 10) \o <<DigitChars[(n % 10) + 1]>>

(* The printf calls the chain makes for one cell: a sequence holding the   *)
(* text of each call (no call at all when no branch matches).              *)
TilePrintedNoQuestionMark(currPos) ==
    IF BitAnd(currPos, EXPLODED_MINE) = EXPLODED_MINE THEN << <<" ", "*", " ">> >>
    ELSE IF BitAnd(currPos, MINE) = MINE THEN
        IF BitAnd(currPos, FLAG) = FLAG /\ ~(BitXor(currPos, MINE) > FLAG)
            THEN << <<" ", "B", "F">> >>
        ELSE IF BitAnd(currPos, QUESTION_MARK) = QUESTION_MARK
                /\ ~(BitXor(currPos, MINE) > QUESTION_MARK)
            THEN << <<" ", "B", "?">> >>
        ELSE << <<" ", "B", " ">> >>
    ELSE IF BitAnd(currPos, REVEALED_TILE) = REVEALED_TILE THEN
        IF currPos > REVEALED_TILE
            THEN << <<" ">> \o Decimal(BitXor(currPos, REVEALED_TILE)) \o <<" ">> >>
        ELSE << <<" ", "_", " ">> >>
    ELSE IF BitAnd(currPos, UNCLICKED_SPACE) = UNCLICKED_SPACE
        THEN << <<" ", " ", " ">> >>
    ELSE IF BitAnd(currPos, FLAG) = FLAG THEN << <<" ", " ", "F">> >>
    ELSE IF BitAnd(currPos, WRONG_MINE) = WRONG_MINE THEN << <<" ", "X", " ">> >>
    ELSE << >>

TilePrintedRevealedFirst(currPos) ==
    IF BitAnd(currPos, EXPLODED_MINE) = EXPLODED_MINE THEN << <<" ", "*", " ">> >>
    ELSE IF BitAnd(currPos, REVEALED_TILE) = REVEALED_TILE THEN
        IF currPos > REVEALED_TILE
            THEN << <<" ">> \o Decimal(BitXor(currPos, REVEALED_TILE)) \o <<" ">> >>
        ELSE << <<" ", "_", " ">> >>
    ELSE IF BitAnd(currPos, MINE) = MINE THEN
        IF BitAnd(currPos, FLAG) = FLAG /\ ~(BitXor(currPos, MINE) > FLAG)
            THEN << <<" ", "B", "F">> >>
        ELSE IF BitAnd(currPos, QUESTION_MARK) = QUESTION_MARK
                /\ ~(BitXor(currPos, MINE) > QUESTION_MARK)
            THEN << <<" ", "B", "?">> >>
        ELSE << <<" ", "B", " ">> >>
    ELSE IF BitAnd(currPos, UNCLICKED_SPACE) = UNCLICKED_SPACE
        THEN << <<" ", " ", " ">> >>
    ELSE IF BitAnd(currPos, FLAG) = FLAG THEN << <<" ", " ", "F">> >>
    ELSE IF BitAnd(currPos, QUESTION_MARK) = QUESTION_MARK THEN << <<" ", " ", "?">> >>
    ELSE IF BitAnd(currPos, WRONG_MINE) = WRONG_MINE THEN << <<" ", "X", " ">> >>
    ELSE << >>

TilePrinted(currPos) ==
    IF BitAnd(currPos, EXPLODED_MINE) = EXPLODED_MINE THEN << <<" ", "*", " ">> >>
    ELSE IF BitAnd(currPos, MINE) = MINE THEN
        IF BitAnd(currPos, FLAG) = FLAG /\ ~(BitXor(currPos, MINE) > FLAG)
            THEN << <<" ", "B", "F">> >>
        ELSE IF BitAnd(currPos, QUESTION_MARK) = QUESTION_MARK
                /\ ~(BitXor(currPos, MINE) > QUESTION_MARK)
            THEN << <<" ", "B", "?">> >>
        ELSE << <<" ", "B", " ">> >>
    ELSE IF BitAnd(currPos, REVEALED_TILE) = REVEALED_TILE THEN
        IF currPos > REVEALED_TILE
            THEN << <<" ">> \o Decimal(BitXor(currPos, REVEALED_TILE)) \o <<" ">> >>
        ELSE << <<" ", "_", " ">> >>
    ELSE IF BitAnd(currPos, UNCLICKED_SPACE) = UNCLICKED_SPACE
        THEN << <<" ", " ", " ">> >>
    ELSE IF BitAnd(currPos, FLAG) = FLAG THEN << <<" ", " ", "F">> >>
    ELSE IF BitAnd(currPos, QUESTION_MARK) = QUESTION_MARK THEN << <<" ", " ", "?">> >>
    ELSE IF BitAnd(currPos, WRONG_MINE) = WRONG_MINE THEN << <<" ", "X", " ">> >>
    ELSE << >>

(* The tiles printed for the cells x..w of the row at byte offset y.       *)
RECURSIVE RowTiles(_, _, _, _)
RowTiles(field, y, x, w) ==
    IF x > w THEN << >>
    ELSE TilePrinted(field[x + y]) \o RowTiles(field, y, x + 1, w)

(* What PrintMineField prints: the X axis and one row per y.               *)
PrintMineField(field, h, w) ==
    LET hh == h * ROW_PITCH
    IN  [axis |-> [x \in 1..w |-> x],
         rows |-> [r \in 1..(hh \div ROW_PITCH) |->
                     [label |-> (r * ROW_PITCH) \div ROW_PITCH,
                      tiles |-> RowTiles(field, r * ROW_PITCH, 1, w)]]]

(* The byte indices both PrintMineField and the FlagAllMines scan read.    *)
GridIndices(w, h) == {x + ROW_PITCH * y : x \in 1..w, y \in 1..h}

----------------------------------------------------------------------------
(* GetProcessPID and GetModuleBaseAddress.                                 *)

NUL == "NUL"
mineSweeperName == <<"w", "i", "n", "m", "i", "n", "e", ".", "e", "x", "e">>
lenMineSweeperName == Len(mineSweeperName)
PROCESS_NAME_LEN == 12

CharAt(s, k) == IF k <= Len(s) THEN s[k] ELSE NUL

(* strncmp(s1, s2, n): 0 when the first n characters agree (or both        *)
(* strings end before that), 1 otherwise (only the zero test is used).     *)
RECURSIVE StrNCmpFrom(_, _, _, _)
StrNCmpFrom(s1, s2, n, k) ==
    IF k > n THEN 0
    ELSE IF CharAt(s1, k) # CharAt(s2, k) THEN 1
    ELSE IF CharAt(s1, k) = NUL THEN 0
    ELSE StrNCmpFrom(s1, s2, n, k + 1)

strncmp(s1, s2, n) == StrNCmpFrom(s1, s2, n, 1)

(* Index of the first entry whose name matches, 0 when there is none.      *)
RECURSIVE FirstMatch(_, _, _, _)
FirstMatch(entries, name, n, k) ==
    IF k > Len(entries) THEN 0
    ELSE IF strncmp(entries[k].name, name, n) = 0 THEN k
    ELSE FirstMatch(entries, name, n, k + 1)

NULL32 == <<0, 0>>

(* A snapshot is [valid, entries]: valid is FALSE when                     *)
(* CreateToolhelp32Snapshot returns INVALID_HANDLE_VALUE; an empty list    *)
(* makes Process32First / Module32First fail.  The result carries the      *)
(* return value and the number of snapshot handles left open.              *)
GetProcessPID(snap, processName) ==
    IF ~snap.valid THEN [ret |-> 0, leaked |-> 0]
    ELSE IF Len(snap.entries) = 0 THEN [ret |-> 0, leaked |-> 0]
    ELSE LET k == FirstMatch(snap.entries, processName, PROCESS_NAME_LEN, 1)
         IN  IF k # 0 THEN [ret |-> snap.entries[k].id, leaked |-> 0]
             ELSE [ret |-> 0, leaked |-> 0]

GetModuleBaseAddress(snap, moduleName, lenModuleName) ==
    IF ~snap.valid THEN [ret |-> NULL32, leaked |-> 0]
    ELSE IF Len(snap.entries) = 0 THEN [ret |-> NULL32, leaked |-> 0]
    ELSE LET k == FirstMatch(snap.entries, moduleName, lenModuleName, 1)
         IN  IF k # 0 THEN [ret |-> snap.entries[k].id, leaked |-> 0]
             ELSE [ret |-> NULL32, leaked |-> 1]

----------------------------------------------------------------------------
(* FlagAllMines: pure parts.                                               *)

(* The shellcode array as initialised (CALL operand still zero).           *)
shellcode == <<85, 139, 236, 139, 69, 8, 139, 72, 4,
               81, 139, 85, 8, 139, 2, 80, 232, 0,
               0, 0, 0, 93, 195>>

(* int callOpOffset = ((int)baseAddr + FLAG_TILE_FUNCTION)                 *)
(*                    - ((int)spaceForShellcode + INST_AFTER_CALL_OFFSET)  *)
callOpOffsetFromOperand(base, stub) ==
    Sub32(Add32(base, Word(FLAG_TILE_FUNCTION)),
          Add32(stub, Word(SHELLCODE_CALL_OFFSET)))
callOpOffset(base, stub) ==
    Sub32(Add32(base, Word(FLAG_TILE_FUNCTION)),
          Add32(stub, Word(INST_AFTER_CALL_OFFSET)))

(* shellcode after memcpy(shellcode + SHELLCODE_CALL_OFFSET, &callOpOffset, 4); *)
(* C offsets are 0-based, the sequence is 1-based.                         *)
PatchedShellcode(base, stub) ==
    [k \in 1..SHELLCODE_LENGTH |->
        IF k - 1 >= SHELLCODE_CALL_OFFSET /\ k - 1 < SHELLCODE_CALL_OFFSET + 4
        THEN MemoryBytes(callOpOffset(base, stub))[k - SHELLCODE_CALL_OFFSET]
        ELSE shellcode[k]]

(* unsigned char buff = (unsigned char)(MINE | UNCLICKED_SPACE)            *)
buffExploded == BitOr(EXPLODED_MINE, UNCLICKED_SPACE) % 256
buff == BitOr(MINE, UNCLICKED_SPACE) % 256

IsExplodedWrongConstant(b) == BitAnd(b, EXPLODED_MINE) = MINE
IsExploded(b) == BitAnd(b, EXPLODED_MINE) = EXPLODED_MINE
IsMine(b) == BitAnd(b, MINE) = MINE
(* The tests of the flagging loop: already flagged, question mark.         *)
IsFlaggedWithoutMineBit(b) == b = FLAG
IsFlagged(b) == b = BitOr(FLAG, MINE)
IsQuestionMarked(b) == b = BitOr(MINE, QUESTION_MARK)

(* An entry of mineLocations that was never stored to.                     *)
Uninit == <<"uninit">>

(* mineLocations[minesFound] = (x, y/32); minesFound++.  The array has     *)
(* room for cap entries; a store at an index >= cap lands past its end.    *)
StoreMine(st, x, y, cap) ==
    [st EXCEPT !.locs = IF st.found < cap
                        THEN [st.locs EXCEPT ![st.found + 1] = <<x, y \div ROW_PITCH>>]
                        ELSE st.locs,
               !.overflow = st.overflow \/ st.found >= cap,
               !.found = st.found + 1]

(* The inner loop over x of one row (y is the row's byte offset): it       *)
(* breaks at the first exploded cell.                                      *)
RECURSIVE ScanRow(_, _, _, _, _, _)
ScanRow(st, field, x, y, w, cap) ==
    IF x > w THEN st
    ELSE IF IsExploded(field[x + y]) THEN [st EXCEPT !.exploded = 1]
    ELSE IF IsMine(field[x + y]) THEN ScanRow(StoreMine(st, x, y, cap), field, x + 1, y, w, cap)
    ELSE ScanRow(st, field, x + 1, y, w, cap)

(* The outer loop over y = 32, 64, .. height*32.                           *)
RECURSIVE ScanRows(_, _, _, _, _, _)
ScanRows(st, field, y, w, h, cap) ==
    IF y > h * ROW_PITCH THEN st
    ELSE LET r == ScanRow(st, field, 1, y, w, cap)
         IN  IF r.exploded # 0 THEN r
             ELSE ScanRows(r, field, y + ROW_PITCH, w, h, cap)

ScanStart(cap) ==
    [locs |-> [k \in 1..cap |-> Uninit], found |-> 0, exploded |-> 0, overflow |-> FALSE]

(* The whole scan of FlagAllMines over a field that holds every index read. *)
Scan(field, w, h, cap) == ScanRows(ScanStart(cap), field, ROW_PITCH, w, h, cap)

(* currOffset = mineLocations[i].x + mineLocations[i].y*32                 *)
CurrOffset(loc) == loc[1] + loc[2] * ROW_PITCH

(* (LPVOID)(baseAddr + MINEFIELD_OFFSET + currOffset)                      *)
CellAddressFromModuleBase(base, off) == Add32(base, Word(off))
CellAddress(base, off) == Add32(Add32(base, Word(MINEFIELD_OFFSET)), Word(off))

----------------------------------------------------------------------------
(* The environment: what the target process and the system can hold.       *)

(* Cell bytes of the games explored: unclicked blank, plain mine,          *)
(* question-marked mine, flagged mine, exploded mine.                      *)
CellBytes == {15, 143, 141, 142, 204}

Dims(n) == {d \in (0..n) \X (0..n) : d[1] * d[2] <= n}

(* A game of the target: its mine counter, width and height bytes, and the *)
(* bytes of its grid cells.                                                *)
GamesOf(dims, counts) ==
    UNION {[numMines : counts, width : {d[1]}, height : {d[2]},
            field : [GridIndices(d[1], d[2]) -> CellBytes]] : d \in dims}

(* The arguments one call of FlagAllMines is explored on.                  *)
Games(n, m) == GamesOf(Dims(n), 0..m)

(* The games a session is explored on: <<width, height>> and mine counter. *)
SessionDims == {<<0, 0>>, <<1, 1>>, <<2, 1>>}
SessionMineCounts == {0, 1}
SessionGames == GamesOf(SessionDims, SessionMineCounts)

(* Values of the three upper bytes of SetMineMetadata's local buff, which  *)
(* the one-byte reads leave as they were (the local is not initialised).   *)
BuffGarbage == {0, 1}

(* What an entry of mineLocations that was never stored to may hold, and   *)
(* what a byte outside the grid may hold (one byte per case of the code).  *)
WildCoords == {<<1, 1>>, <<0, 64>>}
WildBytes == {142, 141, 143}

ModuleBase == <<256, 0>>
StubBases == {<<0, 8192>>}
PARAMETERS_SIZE == 8

otherName == <<"c", "a", "l", "c", ".", "e", "x", "e">>
ProcessSnapshots ==
    {[valid |-> FALSE, entries |-> << >>],
     [valid |-> TRUE, entries |-> << >>],
     [valid |-> TRUE, entries |-> << [name |-> otherName, id |-> 8] >>],
     [valid |-> TRUE, entries |-> << [name |-> otherName, id |-> 8],
                                     [name |-> mineSweeperName, id |-> 4] >>]}
ModuleSnapshots ==
    {[valid |-> FALSE, entries |-> << >>],
     [valid |-> TRUE, entries |-> << >>],
     [valid |-> TRUE, entries |-> << [name |-> otherName, id |-> <<30000, 0>>] >>],
     [valid |-> TRUE, entries |-> << [name |-> mineSweeperName, id |-> ModuleBase],
                                     [name |-> otherName, id |-> <<30000, 0>>] >>]}

MenuInputs == {"1", "2", "3", "4", "5", "x"}

----------------------------------------------------------------------------
(* SetMineMetadata.  game is what the target holds, failAt the read that   *)
(* fails (0: none), g the prior upper bytes of the local buff, old the     *)
(* caller's variables before the call.                                     *)

SetMineMetadata(game, failAt, g, old) ==
    [ret |-> IF failAt = 0 THEN 0 ELSE 1,
     numMines |-> IF failAt = 1 THEN old.numMines ELSE game.numMines,
     height |-> IF failAt \in {1, 2} THEN old.height ELSE game.height + 256 * g,
     width |-> IF failAt \in {1, 2, 3} THEN old.width ELSE game.width + 256 * g,
     field |-> IF failAt = 0
               THEN [k \in {j \in DOMAIN game.field : j < MINEFIELD_SIZE} |-> game.field[k]]
               ELSE old.field]

----------------------------------------------------------------------------
(* Initial states.                                                         *)

NoRegions == [code |-> "none", args |-> "none"]

FamIdle ==
    /\ mineLocations = << >>
    /\ minesFound = 0
    /\ foundExplodedMine = 0
    /\ errorCode = 0
    /\ i = 0
    /\ spaceForShellcode = NULL32
    /\ localFrees = 0
    /\ heapCorrupt = FALSE
    /\ famRet = -1

RemoteIdle ==
    /\ regions = NoRegions
    /\ remoteCode = << >>
    /\ remoteArgs = << >>
    /\ trace = << >>
    /\ threads = << >>

Init ==
    /\ pc = "menu"
    /\ target \in SessionGames
    /\ input = "0"
    /\ debug = 0
    /\ MineSweeperPID = 0
    /\ baseAddr = NULL32
    /\ numMines = 0
    /\ height = 0
    /\ width = 0
    /\ mineField = << >>
    /\ exitCode = "none"
    /\ openHandles = 0
    /\ openSnapshots = 0
    /\ out = << >>
    /\ FamIdle
    /\ RemoteIdle

----------------------------------------------------------------------------
(* main: the menu loop.                                                    *)

(* The prompt: read the selection.  Options 1..3 start an action; option 4 *)
(* toggles debug and falls through to the break of option 5; option 5      *)
(* leaves the loop and main returns 0; anything else is reported invalid.  *)
MainMenu ==
    /\ pc = "menu"
    /\ \E c \in MenuInputs :
        /\ input' = c
        /\ debug' = IF c = "4" THEN 1 - debug ELSE debug
        /\ pc' = IF c \in {"1", "2", "3"} THEN "getpid"
                 ELSE IF c = "5" THEN "exited" ELSE "menu"
        /\ exitCode' = IF c = "5" THEN 0 ELSE exitCode
    /\ out' = << >>
    /\ regions' = NoRegions
    /\ remoteCode' = << >>
    /\ remoteArgs' = << >>
    /\ trace' = << >>
    /\ threads' = << >>
    /\ localFrees' = 0
    /\ heapCorrupt' = FALSE
    /\ famRet' = -1
    /\ UNCHANGED <<target, MineSweeperPID, baseAddr, numMines, height, width, mineField,
                   openHandles, openSnapshots, mineLocations, minesFound,
                   foundExplodedMine, errorCode, i, spaceForShellcode>>

(* MineSweeperPID = GetProcessPID(mineSweeperName); if (!MineSweeperPID) continue; *)
MainGetProcessPID(snaps) ==
    /\ pc = "getpid"
    /\ \E snap \in snaps :
        /\ snap.valid => openSnapshots < MaxSnapshots
        /\ LET r == GetProcessPID(snap, mineSweeperName)
           IN  /\ MineSweeperPID' = r.ret
               /\ openSnapshots' = openSnapshots + r.leaked
               /\ pc' = IF r.ret = 0 THEN "menu" ELSE "getbase"
    /\ UNCHANGED <<target, input, debug, baseAddr, numMines, height, width, mineField,
                   exitCode, openHandles, out, famVars, remVars>>

(* baseAddr = (DWORD)GetModuleBaseAddress(..); if (!baseAddr) continue;    *)
MainGetModuleBaseAddress(snaps) ==
    /\ pc = "getbase"
    /\ \E snap \in snaps :
        /\ snap.valid => openSnapshots < MaxSnapshots
        /\ LET r == GetModuleBaseAddress(snap, mineSweeperName, lenMineSweeperName)
           IN  /\ baseAddr' = r.ret
               /\ openSnapshots' = openSnapshots + r.leaked
               /\ pc' = IF r.ret = NULL32 THEN "menu" ELSE "open"
    /\ UNCHANGED <<target, input, debug, MineSweeperPID, numMines, height, width, mineField,
                   exitCode, openHandles, out, famVars, remVars>>

(* hMineSweeper = OpenProcess(..); on failure main returns 1.              *)
MainOpenProcess ==
    /\ pc = "open"
    /\ \/ /\ openHandles < MaxHandles
          /\ openHandles' = openHandles + 1
          /\ pc' = "meta"
          /\ exitCode' = exitCode
       \/ /\ openHandles' = openHandles
          /\ pc' = "exited"
          /\ exitCode' = 1
    /\ UNCHANGED <<target, input, debug, MineSweeperPID, baseAddr, numMines, height, width,
                   mineField, openSnapshots, out, famVars, remVars>>

(* if (SetMineMetadata(..)) { continue; }                                  *)
MainSetMineMetadata ==
    /\ pc = "meta"
    /\ \E failAt \in 0..4, g \in BuffGarbage :
        LET r == SetMineMetadata(target, failAt, g,
                                 [numMines |-> numMines, height |-> height,
                                  width |-> width, field |-> mineField])
        IN  /\ numMines' = r.numMines
            /\ height' = r.height
            /\ width' = r.width
            /\ mineField' = r.field
            /\ pc' = IF r.ret # 0 THEN "menu" ELSE "dispatch"
    /\ UNCHANGED <<target, input, debug, MineSweeperPID, baseAddr, exitCode, openHandles,
                   openSnapshots, out, famVars, remVars>>

(* Does the field hold every index the two grid loops read?                *)
FieldCovers(field, w, h) ==
    \A y \in 1..h : \A x \in 1..w : (x + ROW_PITCH * y) \in DOMAIN field

(* case '1': the info line.                                                *)
MainPrintInfo ==
    /\ pc = "dispatch"
    /\ input = "1"
    /\ out' = <<MineSweeperPID, height, width, numMines>>
    /\ pc' = "close"
    /\ UNCHANGED <<target, input, debug, MineSweeperPID, baseAddr, numMines, height, width,
                   mineField, exitCode, openHandles, openSnapshots, famVars, remVars>>

(* case '2': PrintMineField(buff, height, width).  With dimensions beyond  *)
(* what the field holds the loops read outside the data: the program may   *)
(* crash or print tiles of arbitrary bytes ("undefined").                  *)
MainPrintMineField ==
    /\ pc = "dispatch"
    /\ input = "2"
    /\ IF FieldCovers(mineField, width, height)
       THEN /\ out' = PrintMineField(mineField, height, width)
            /\ pc' = "close"
       ELSE /\ out' = <<"undefined">>
            /\ pc' \in {"close", "crashed"}
    /\ UNCHANGED <<target, input, debug, MineSweeperPID, baseAddr, numMines, height, width,
                   mineField, exitCode, openHandles, openSnapshots, famVars, remVars>>

(* The case label of the switch that calls FlagAllMines.                   *)
FlagCaseOnPrintOption == "2"
FlagCase == "3"

(* case '3': the call of FlagAllMines; its locals as initialised at entry. *)
FamEntry ==
    /\ mineLocations' = [k \in 1..numMines |-> Uninit]
    /\ minesFound' = 0
    /\ foundExplodedMine' = 0
    /\ errorCode' = 0
    /\ i' = 0
    /\ spaceForShellcode' = NULL32
    /\ localFrees' = 0
    /\ heapCorrupt' = FALSE
    /\ famRet' = -1

MainFlagAllMines ==
    /\ pc = "dispatch"
    /\ input = FlagCase
    /\ FamEntry
    /\ pc' = "fam_scan"
    /\ UNCHANGED <<mainVars, remVars>>

(* CloseHandle(hMineSweeper) at the end of an action; the return value of  *)
(* FlagAllMines is not looked at.                                          *)
MainCloseHandle ==
    /\ pc \in {"close", "fam_ret"}
    /\ openHandles' = openHandles - 1
    /\ pc' = "menu"
    /\ mineLocations' = << >>
    /\ minesFound' = 0
    /\ foundExplodedMine' = 0
    /\ errorCode' = 0
    /\ i' = 0
    /\ spaceForShellcode' = NULL32
    /\ UNCHANGED <<target, input, debug, MineSweeperPID, baseAddr, numMines, height, width,
                   mineField, exitCode, openSnapshots, out, localFrees, heapCorrupt,
                   famRet, remVars>>

----------------------------------------------------------------------------
(* FlagAllMines, one step per remote operation.                            *)

(* Results of the scan.  When the dimensions reach outside the field (they *)
(* then exceed a byte) the cells read are arbitrary: any result the two    *)
(* loops can produce from arbitrary bytes.                                 *)
ArbitraryScans(cap) ==
    {st \in [locs : [1..cap -> WildCoords \cup {Uninit}], found : 0..(cap + 1),
             exploded : {0, 1}, overflow : BOOLEAN] :
        /\ st.overflow = (st.found > cap)
        /\ \A k \in 1..cap : (st.locs[k] = Uninit) = (k > st.found)}

ScanOutcomes(field, w, h, cap) ==
    IF FieldCovers(field, w, h) THEN {Scan(field, w, h, cap)} ELSE ArbitraryScans(cap)

(* free(mineLocations) may bring the program down when the block was      *)
(* freed before or a store went past its end.                              *)
FreeMayCrash == localFrees >= 1 \/ heapCorrupt

AllocOp(r, size, ok) == <<"VirtualAllocEx", r, size, ok>>
(* VirtualFreeEx(hMineSweeper, region, size, MEM_RELEASE): like every call *)
(* into the target it may fail, and its result is never looked at; oks     *)
(* holds the result of each call of a run of calls.                        *)
FreeOp(r, ok) ==
    <<"VirtualFreeEx", r, IF r = "code" THEN SHELLCODE_LENGTH ELSE PARAMETERS_SIZE, ok>>
FreeOps(rel, oks) == [k \in 1..Len(rel) |-> FreeOp(rel[k], oks[k])]
FreeResults(rel) == [1..Len(rel) -> BOOLEAN]
Released(regs, rel, oks) ==
    [r \in DOMAIN regs |->
        IF \E k \in 1..Len(rel) : rel[k] = r /\ oks[k] THEN "released" ELSE regs[r]]

(* The regions each exit path hands to VirtualFreeEx, in call order.       *)
ReleasedOnArgsAllocFailure == <<"code">>
ReleasedOnStubWriteFailure == <<"code", "args">>
ReleasedAfterLoop == <<"code", "args">>

(* Where control goes: after the argument region is allocated (the stub is *)
(* patched and written), after a failure for one coordinate (break), and   *)
(* after the remote thread is created (the wait).                          *)
AfterArgsAllocatedSkipsStub == "fam_loop"
AfterArgsAllocated == "fam_write_stub"
AfterCoordFailure == "fam_release"
AfterThreadCreatedNoWait == "fam_loop"
AfterThreadCreated == "fam_wait"

(* The early returns: free(mineLocations); VirtualFreeEx of the regions    *)
(* named in rel; return 1.  tr is the trace up to the failed call.         *)
EarlyReturn(tr, rel) ==
    /\ localFrees' = localFrees + 1
    /\ \/ /\ FreeMayCrash
          /\ pc' = "crashed"
          /\ trace' = tr
          /\ regions' = regions
          /\ famRet' = famRet
       \/ /\ pc' = "fam_ret"
          /\ \E oks \in FreeResults(rel) :
              /\ trace' = tr \o FreeOps(rel, oks)
              /\ regions' = Released(regions, rel, oks)
          /\ famRet' = 1

(* The two scan loops.  A store past the end of mineLocations, or a read   *)
(* outside the 1024-byte buffer, may bring the program down.               *)
FamScan ==
    /\ pc = "fam_scan"
    /\ \E st \in ScanOutcomes(mineField, width, height, numMines) :
        /\ mineLocations' = st.locs
        /\ minesFound' = st.found
        /\ foundExplodedMine' = st.exploded
        /\ heapCorrupt' = st.overflow
        /\ \/ /\ st.overflow \/ ~FieldCovers(mineField, width, height)
              /\ pc' = "crashed"
           \/ pc' = IF st.exploded # 0 THEN "fam_epilogue" ELSE "fam_alloc_code"
    /\ UNCHANGED <<mainVars, errorCode, i, spaceForShellcode, localFrees, famRet, remVars>>

(* spaceForShellcode = VirtualAllocEx(.., SHELLCODE_LENGTH, ..)            *)
FamAllocCode(pool) ==
    /\ pc = "fam_alloc_code"
    /\ \/ /\ \E a \in pool : spaceForShellcode' = a
          /\ regions' = [regions EXCEPT !.code = "allocated"]
          /\ trace' = Append(trace, AllocOp("code", SHELLCODE_LENGTH, TRUE))
          /\ pc' = "fam_alloc_args"
          /\ UNCHANGED <<localFrees, famRet>>
       \/ /\ EarlyReturn(Append(trace, AllocOp("code", SHELLCODE_LENGTH, FALSE)), << >>)
          /\ spaceForShellcode' = spaceForShellcode
    /\ UNCHANGED <<mainVars, mineLocations, minesFound, foundExplodedMine, errorCode, i,
                   heapCorrupt, remoteCode, remoteArgs, threads>>

(* spaceForParameter = VirtualAllocEx(.., sizeof(struct parameters_s), ..) *)
FamAllocArgs ==
    /\ pc = "fam_alloc_args"
    /\ \/ /\ regions' = [regions EXCEPT !.args = "allocated"]
          /\ trace' = Append(trace, AllocOp("args", PARAMETERS_SIZE, TRUE))
          /\ pc' = AfterArgsAllocated
          /\ UNCHANGED <<localFrees, famRet>>
       \/ EarlyReturn(Append(trace, AllocOp("args", PARAMETERS_SIZE, FALSE)),
                      ReleasedOnArgsAllocFailure)
    /\ UNCHANGED <<mainVars, mineLocations, minesFound, foundExplodedMine, errorCode, i,
                   spaceForShellcode, heapCorrupt, remoteCode, remoteArgs, threads>>

(* The CALL operand is patched in, then the shellcode is written.          *)
FamWriteStub ==
    /\ pc = "fam_write_stub"
    /\ \/ /\ remoteCode' = PatchedShellcode(baseAddr, spaceForShellcode)
          /\ trace' = Append(trace, <<"WriteProcessMemory", "code", SHELLCODE_LENGTH, TRUE>>)
          /\ pc' = "fam_loop"
          /\ UNCHANGED <<localFrees, famRet, regions>>
       \/ /\ EarlyReturn(Append(trace, <<"WriteProcessMemory", "code", SHELLCODE_LENGTH, FALSE>>),
                         ReleasedOnStubWriteFailure)
          /\ remoteCode' = remoteCode
    /\ UNCHANGED <<mainVars, mineLocations, minesFound, foundExplodedMine, errorCode, i,
                   spaceForShellcode, heapCorrupt, remoteArgs, threads>>

(* Head of the flagging loop: for (int i = 0; i < (int)numMines; i++),     *)
(* the computation of currOffset and the two tests of mineField[currOffset]. *)
(* An entry never stored to holds whatever the heap held; a byte outside   *)
(* the grid holds whatever memory holds there, and outside the buffer the  *)
(* read may also bring the program down.                                   *)
FamLoop ==
    /\ pc = "fam_loop"
    /\ IF i < numMines
       THEN \E loc \in (IF mineLocations[i + 1] = Uninit THEN WildCoords
                        ELSE {mineLocations[i + 1]}) :
              LET off == CurrOffset(loc)
              IN  /\ mineLocations' = [mineLocations EXCEPT ![i + 1] = loc]
                  /\ \/ /\ off \notin DOMAIN mineField
                        /\ off >= BUFF_SIZE
                        /\ pc' = "crashed"
                        /\ UNCHANGED <<mineField, i>>
                     \/ \E b \in (IF off \in DOMAIN mineField THEN {mineField[off]}
                                  ELSE WildBytes) :
                          /\ mineField' = IF off \in DOMAIN mineField THEN mineField
                                          ELSE [k \in DOMAIN mineField \cup {off} |->
                                                  IF k = off THEN b ELSE mineField[k]]
                          /\ i' = IF IsFlagged(b) THEN i + 1 ELSE i
                          /\ pc' = IF IsFlagged(b) THEN "fam_loop"
                                   ELSE IF IsQuestionMarked(b) THEN "fam_qm"
                                   ELSE "fam_args"
       ELSE /\ pc' = "fam_release"
            /\ UNCHANGED <<mineLocations, mineField, i>>
    /\ UNCHANGED <<target, input, debug, MineSweeperPID, baseAddr, numMines, height, width,
                   exitCode, openHandles, openSnapshots, out, minesFound,
                   foundExplodedMine, errorCode, spaceForShellcode, localFrees,
                   heapCorrupt, famRet, remVars>>

(* The question mark is overwritten with a plain mine in the target; on    *)
(* failure mineLocations is freed and the loop is left.                    *)
FamQuestionMark ==
    /\ pc = "fam_qm"
    /\ LET cell == <<CellAddress(baseAddr, CurrOffset(mineLocations[i + 1])), buff>>
           off == CurrOffset(mineLocations[i + 1])
       IN  \/ /\ trace' = Append(trace, <<"WriteProcessMemory", "cell", cell, TRUE>>)
              /\ target' = IF off \in DOMAIN target.field
                            THEN [target EXCEPT !.field[off] = buff] ELSE target
              /\ pc' = "fam_args"
              /\ UNCHANGED <<errorCode, localFrees>>
           \/ /\ trace' = Append(trace, <<"WriteProcessMemory", "cell", cell, FALSE>>)
              /\ target' = target
              /\ localFrees' = localFrees + 1
              /\ errorCode' = 1
              /\ pc' \in (IF FreeMayCrash THEN {"crashed", AfterCoordFailure}
                          ELSE {AfterCoordFailure})
    /\ UNCHANGED <<input, debug, MineSweeperPID, baseAddr, numMines, height, width,
                   mineField, exitCode, openHandles, openSnapshots, out, mineLocations, minesFound, foundExplodedMine, i,
                   spaceForShellcode, heapCorrupt, famRet, regions, remoteCode,
                   remoteArgs, threads>>

(* WriteProcessMemory(hMineSweeper, spaceForParameter, &(mineLocations[i]), ..) *)
FamWriteArgs ==
    /\ pc = "fam_args"
    /\ \/ /\ remoteArgs' = mineLocations[i + 1]
          /\ threads' = [k \in 1..Len(threads) |->
                           IF threads[k].status = "running"
                           THEN [threads[k] EXCEPT !.stale = TRUE] ELSE threads[k]]
          /\ trace' = Append(trace, <<"WriteProcessMemory", "args", mineLocations[i + 1], TRUE>>)
          /\ pc' = "fam_thread"
          /\ errorCode' = errorCode
       \/ /\ trace' = Append(trace, <<"WriteProcessMemory", "args", mineLocations[i + 1], FALSE>>)
          /\ errorCode' = 1
          /\ pc' = AfterCoordFailure
          /\ UNCHANGED <<remoteArgs, threads>>
    /\ UNCHANGED <<mainVars, mineLocations, minesFound, foundExplodedMine, i,
                   spaceForShellcode, localFrees, heapCorrupt, famRet, regions, remoteCode>>

(* hThread = CreateRemoteThread(.., spaceForShellcode, spaceForParameter, ..) *)
FamCreateThread ==
    /\ pc = "fam_thread"
    /\ \/ /\ threads' = Append(threads, [status |-> "running", args |-> remoteArgs,
                                         called |-> << >>, wait |-> "pending",
                                         stale |-> FALSE])
          /\ trace' = Append(trace, <<"CreateRemoteThread", "code", remoteArgs, TRUE>>)
          /\ pc' = AfterThreadCreated
          /\ errorCode' = errorCode
       \/ /\ trace' = Append(trace, <<"CreateRemoteThread", "code", remoteArgs, FALSE>>)
          /\ errorCode' = 1
          /\ pc' = AfterCoordFailure
          /\ threads' = threads
    /\ UNCHANGED <<mainVars, mineLocations, minesFound, foundExplodedMine, i,
                   spaceForShellcode, localFrees, heapCorrupt, famRet, regions,
                   remoteCode, remoteArgs>>

(* WaitForSingleObject(hThread, 1000); CloseHandle(hThread); i++.  The wait *)
(* ends when the thread has terminated or when the timeout has elapsed.    *)
WaitResult(t) == IF t.status = "done" THEN "WAIT_OBJECT_0" ELSE "WAIT_TIMEOUT"

FamWait ==
    /\ pc = "fam_wait"
    /\ LET k == Len(threads)
           res == WaitResult(threads[k])
       IN  /\ threads' = [threads EXCEPT ![k].wait = res]
           /\ trace' = trace \o << <<"WaitForSingleObject", k, WAIT_MS, res>>,
                                   <<"CloseHandle", k, 0, TRUE>> >>
    /\ i' = i + 1
    /\ pc' = "fam_loop"
    /\ UNCHANGED <<mainVars, mineLocations, minesFound, foundExplodedMine, errorCode,
                   spaceForShellcode, localFrees, heapCorrupt, famRet, regions,
                   remoteCode, remoteArgs>>

(* The two VirtualFreeEx calls after the loop.                             *)
FamRelease ==
    /\ pc = "fam_release"
    /\ \E oks \in FreeResults(ReleasedAfterLoop) :
        /\ trace' = trace \o FreeOps(ReleasedAfterLoop, oks)
        /\ regions' = Released(regions, ReleasedAfterLoop, oks)
    /\ pc' = "fam_epilogue"
    /\ UNCHANGED <<mainVars, famVars, remoteCode, remoteArgs, threads>>

(* free(mineLocations); return errorCode;                                  *)
FamEpilogue ==
    /\ pc = "fam_epilogue"
    /\ localFrees' = localFrees + 1
    /\ \/ /\ FreeMayCrash
          /\ pc' = "crashed"
          /\ famRet' = famRet
       \/ /\ pc' = "fam_ret"
          /\ famRet' = errorCode
    /\ UNCHANGED <<mainVars, mineLocations, minesFound, foundExplodedMine, errorCode, i,
                   spaceForShellcode, heapCorrupt, remVars>>

(* The target runs an injected thread to its end: the stub loads the       *)
(* argument record and calls the flag-tile function with it.  The record   *)
(* it loads is the one in the region when it gets to run: the one written  *)
(* before its launch or any written since.                                 *)
LaunchIndex(k) ==
    CHOOSE j \in 1..Len(trace) :
        /\ trace[j][1] = "CreateRemoteThread"
        /\ trace[j][4]
        /\ Cardinality({m \in 1..j : trace[m][1] = "CreateRemoteThread" /\ trace[m][4]}) = k
ArgsVisibleTo(k) ==
    {threads[k].args} \cup
    {trace[j][3] : j \in {m \in LaunchIndex(k)..Len(trace) :
                            /\ trace[m][1] = "WriteProcessMemory"
                            /\ trace[m][2] = "args"
                            /\ trace[m][4]}}

ThreadFinish ==
    /\ \E k \in 1..Len(threads) :
        /\ threads[k].status = "running"
        /\ \E c \in ArgsVisibleTo(k) :
            threads' = [threads EXCEPT ![k].status = "done", ![k].called = c]
    /\ UNCHANGED <<pc, mainVars, famVars, regions, remoteCode, remoteArgs, trace>>

----------------------------------------------------------------------------
(* The session: main with everything it calls.                             *)

Next ==
    \/ MainMenu
    \/ MainGetProcessPID(ProcessSnapshots)
    \/ MainGetModuleBaseAddress(ModuleSnapshots)
    \/ MainOpenProcess
    \/ MainSetMineMetadata
    \/ MainPrintInfo
    \/ MainPrintMineField
    \/ MainFlagAllMines
    \/ MainCloseHandle
    \/ FamScan
    \/ FamAllocCode(StubBases)
    \/ FamAllocArgs
    \/ FamWriteStub
    \/ FamLoop
    \/ FamQuestionMark
    \/ FamWriteArgs
    \/ FamCreateThread
    \/ FamWait
    \/ FamRelease
    \/ FamEpilogue
    \/ ThreadFinish

Spec == Init /\ [][Next]_vars

(* One call of FlagAllMines on arbitrary arguments.                        *)
InitFlag ==
    /\ pc = "fam_scan"
    /\ input = "3"
    /\ debug = 0
    /\ MineSweeperPID = 4
    /\ baseAddr = ModuleBase
    /\ \E game \in Games(MaxCells, MaxNumMines) :
        /\ target = game
        /\ numMines = game.numMines
        /\ height = game.height
        /\ width = game.width
        /\ mineField = game.field
        /\ mineLocations = [k \in 1..game.numMines |-> Uninit]
    /\ exitCode = "none"
    /\ openHandles = 1
    /\ openSnapshots = 0
    /\ out = << >>
    /\ minesFound = 0
    /\ foundExplodedMine = 0
    /\ errorCode = 0
    /\ i = 0
    /\ spaceForShellcode = NULL32
    /\ localFrees = 0
    /\ heapCorrupt = FALSE
    /\ famRet = -1
    /\ RemoteIdle

NextFlag ==
    \/ FamScan
    \/ FamAllocCode(StubBases)
    \/ FamAllocArgs
    \/ FamWriteStub
    \/ FamLoop
    \/ FamQuestionMark
    \/ FamWriteArgs
    \/ FamCreateThread
    \/ FamWait
    \/ FamRelease
    \/ FamEpilogue
    \/ ThreadFinish

SpecFlag == InitFlag /\ [][NextFlag]_vars

(* The same call under the scheduling the code has: FlagAllMines is one    *)
(* sequential thread of the helper, so whenever it has a next statement it *)
(* eventually executes it (every call it makes returns, WaitForSingleObject *)
(* after at most WAIT_MS).  Nothing makes the target run an injected       *)
(* thread to its end: ThreadFinish carries no fairness.  Every statement   *)
(* of FlagAllMines changes pc or i, which is what the fairness condition   *)
(* is subscripted with.                                                    *)
FlagAllMinesStep ==
    \/ FamScan
    \/ FamAllocCode(StubBases)
    \/ FamAllocArgs
    \/ FamWriteStub
    \/ FamLoop
    \/ FamQuestionMark
    \/ FamWriteArgs
    \/ FamCreateThread
    \/ FamWait
    \/ FamRelease
    \/ FamEpilogue

SpecFlagFair == InitFlag /\ [][NextFlag]_vars /\ WF_<<pc, i>>(FlagAllMinesStep)

(* The allocation, patch and write of the stub, on a wide range of        *)
(* module bases and region addresses.                                      *)
StubTestModuleBases ==
    {<<256, 0>>, <<4096, 0>>, <<64, 0>>, <<65535, 65535>>,
     <<256, 60000>>, <<32767, 51377>>, <<32768, 0>>, <<0, 4096>>}
StubTestBases ==
    {<<0, 8192>>, <<0, 65530>>, <<65535, 65530>>, <<32767, 65515>>,
     <<2, 0>>, <<4096, 14138>>, <<256, 14159>>, <<49152, 1>>}

InitStub ==
    /\ pc = "fam_alloc_code"
    /\ target = [numMines |-> 0, width |-> 0, height |-> 0, field |-> << >>]
    /\ input = "3"
    /\ debug = 0
    /\ MineSweeperPID = 4
    /\ baseAddr \in StubTestModuleBases
    /\ numMines = 0
    /\ height = 0
    /\ width = 0
    /\ mineField = << >>
    /\ exitCode = "none"
    /\ openHandles = 1
    /\ openSnapshots = 0
    /\ out = << >>
    /\ FamIdle
    /\ RemoteIdle

NextStub ==
    \/ FamAllocCode(StubTestBases)
    \/ FamAllocArgs
    \/ FamWriteStub

SpecStub == InitStub /\ [][NextStub]_vars

(* PrintMineField on a one-cell field holding any byte.                    *)
InitDecode ==
    /\ pc = "dispatch"
    /\ \E b \in 0..255 :
        /\ target = [numMines |-> 0, width |-> 1, height |-> 1,
                     field |-> [k \in GridIndices(1, 1) |-> b]]
        /\ mineField = [k \in GridIndices(1, 1) |-> b]
    /\ input = "2"
    /\ debug = 0
    /\ MineSweeperPID = 4
    /\ baseAddr = ModuleBase
    /\ numMines = 0
    /\ height = 1
    /\ width = 1
    /\ exitCode = "none"
    /\ openHandles = 1
    /\ openSnapshots = 0
    /\ out = << >>
    /\ FamIdle
    /\ RemoteIdle

NextDecode ==
    \/ MainPrintMineField
    \/ MainCloseHandle

SpecDecode == InitDecode /\ [][NextDecode]_vars

(* A session on a game without a plain mine: every plain mine met later   *)
(* is one FlagAllMines wrote over a question mark.                         *)
RoundBytes == {15, 141, 142}
RoundGames ==
    {g \in SessionGames : \A c \in DOMAIN g.field : g.field[c] \in RoundBytes}

InitRound ==
    /\ Init
    /\ target \in RoundGames

SpecRound == InitRound /\ [][Next]_vars

(* The two lookups of an action on arbitrary process and module lists,    *)
(* which the state keeps next to the game: names that equal the requested  *)
(* one, extend it, differ from it in case, fall short of it, or are        *)
(* unrelated; the k-th process has PID 4k, the k-th module base 0x0k000000. *)
LookupNames ==
    {mineSweeperName,
     mineSweeperName \o <<"2">>,
     <<"W", "i", "n", "m", "i", "n", "e", ".", "e", "x", "e">>,
     <<"w", "i", "n", "m", "i", "n", "e", ".", "e", "x">>,
     otherName}
NameLists == UNION {[1..n -> LookupNames] : n \in 0..MaxEntries}
LookupProcessSnapshots ==
    {[valid |-> FALSE, entries |-> << >>]} \cup
    {[valid |-> TRUE, entries |-> [k \in 1..Len(l) |-> [name |-> l[k], id |-> 4 * k]]] :
        l \in NameLists}
LookupModuleSnapshots ==
    {[valid |-> FALSE, entries |-> << >>]} \cup
    {[valid |-> TRUE, entries |-> [k \in 1..Len(l) |-> [name |-> l[k], id |-> <<256 * k, 0>>]]] :
        l \in NameLists}

InitLookup ==
    /\ pc = "getpid"
    /\ \E ps \in LookupProcessSnapshots, ms \in LookupModuleSnapshots :
        target = [numMines |-> 0, width |-> 0, height |-> 0, field |-> << >>,
                  processes |-> ps, modules |-> ms]
    /\ input = "1"
    /\ debug = 0
    /\ MineSweeperPID = 0
    /\ baseAddr = NULL32
    /\ numMines = 0
    /\ height = 0
    /\ width = 0
    /\ mineField = << >>
    /\ exitCode = "none"
    /\ openHandles = 0
    /\ openSnapshots = 0
    /\ out = << >>
    /\ FamIdle
    /\ RemoteIdle

NextLookup ==
    \/ MainGetProcessPID({target.processes})
    \/ MainGetModuleBaseAddress({target.modules})

SpecLookup == InitLookup /\ [][NextLookup]_vars

(* Actions 1 and 2 from the metadata read on, on targets whose width and  *)
(* height bytes range over the byte values around the sizes that matter:   *)
(* the largest board of the game (30 x 24), the last row and column the    *)
(* block read covers, the last row the buffer holds, and 255.              *)
DimWidths == {0, 1, 30, 31, 255}
DimHeights == {0, 1, 24, 26, 27, 31, 32, 255}
DimGames ==
    {[numMines |-> 0, width |-> w, height |-> h,
      field |-> [k \in GridIndices(w, h) |-> UNCLICKED_SPACE]] :
        w \in DimWidths, h \in DimHeights}

InitDims ==
    /\ pc = "meta"
    /\ target \in DimGames
    /\ input \in {"1", "2"}
    /\ debug = 0
    /\ MineSweeperPID = 4
    /\ baseAddr = ModuleBase
    /\ numMines = 0
    /\ height = 0
    /\ width = 0
    /\ mineField = << >>
    /\ exitCode = "none"
    /\ openHandles = 1
    /\ openSnapshots = 0
    /\ out = << >>
    /\ FamIdle
    /\ RemoteIdle

NextDims ==
    \/ MainSetMineMetadata
    \/ MainPrintInfo
    \/ MainPrintMineField
    \/ MainCloseHandle

SpecDims == InitDims /\ [][NextDims]_vars

----------------------------------------------------------------------------
(* Properties.                                                             *)

RegionNames == {"code", "args"}
RemoteOps == {"VirtualAllocEx", "WriteProcessMemory", "CreateRemoteThread", "VirtualFreeEx"}
FailedAt(k) == trace[k][1] \in RemoteOps /\ trace[k][4] = FALSE
CoordFailedAt(k) ==
    /\ FailedAt(k)
    /\ \/ trace[k][1] = "CreateRemoteThread"
       \/ trace[k][1] = "WriteProcessMemory" /\ trace[k][2] \in {"cell", "args"}
Launches ==
    LET Launched(e) == e[1] = "CreateRemoteThread" /\ e[4]
        sel == SelectSeq(trace, Launched)
    IN  [k \in 1..Len(sel) |-> sel[k][3]]
ExplodedByte(b) == (b \div 64) % 4 = 3 /\ (b \div 4) % 4 = 3
MineBit(b) == (b \div 128) % 2 = 1
GridHasExploded == \E k \in GridIndices(width, height) : ExplodedByte(mineField[k])
CellsRowMajor(w, h) ==
    [k \in 1..(w * h) |-> <<((k - 1) % w) + 1, ((k - 1) \div w) + 1>>]
UnflaggedMines ==
    LET Wanted(c) == LET b == mineField[c[1] + 32 * c[2]] IN MineBit(b) /\ b # 142
    IN  SelectSeq(CellsRowMajor(width, height), Wanted)

(* C1: as the spec states it: when FlagAllMines has returned, no remote    *)
(* region is left allocated in the target.                                 *)
C1_NoRegionLeftAllocated ==
    pc = "fam_ret" => \A r \in RegionNames : regions[r] # "allocated"

(* C2: as the spec states it: whenever the menu loop is at its start, no   *)
(* handle to the target process is open.                                   *)
C2_NoHandleAtLoopStart == pc = "menu" => openHandles = 0

(* C3: as the spec states it: the program has ended only if the operator   *)
(* chose option 5.                                                         *)
C3_EndsOnlyOnOption5 == pc = "exited" => input = "5"

(* C4: when some cell of the grid is an exploded mine, FlagAllMines issues *)
(* no remote operation at all: nothing is allocated, written or launched,  *)
(* whatever mines lie before or after that cell.                           *)
C4_ExplodedMeansNoRemoteOp ==
    GridHasExploded =>
        /\ trace = << >>
        /\ threads = << >>
        /\ regions = NoRegions
        /\ pc \in {"fam_scan", "fam_epilogue", "fam_ret", "crashed"}

(* FlagAllMines has returned on a grid with a mine, then an exploded mine, *)
(* then another mine in scan order.                                        *)
C4_Witness ==
    /\ pc = "fam_ret"
    /\ \E a, b, c \in GridIndices(width, height) :
        /\ a < b /\ b < c
        /\ MineBit(mineField[a]) /\ ~ExplodedByte(mineField[a])
        /\ ExplodedByte(mineField[b])
        /\ MineBit(mineField[c]) /\ ~ExplodedByte(mineField[c])

(* C5: as the spec states it: when FlagAllMines returns on a grid without  *)
(* an exploded mine and no remote operation failed, the coordinates of the *)
(* threads it launched are the mines not already flagged, in row-major     *)
(* order, one thread each.                                                 *)
C5_OneThreadPerUnflaggedMine ==
    (/\ pc = "fam_ret"
     /\ ~GridHasExploded
     /\ \A k \in 1..Len(trace) : ~FailedAt(k))
    => Launches = UnflaggedMines

(* C6: the four bytes at offsets 0x11..0x14 of the stub written to the     *)
(* target hold, low byte first, the 32-bit value that added to the address *)
(* of the instruction after the CALL (stub base + 0x15) gives the address  *)
(* of the flag-tile function (module base + 0x374F), modulo 2^32; the CALL *)
(* opcode precedes them; a stub at 0x2000 under a module at 0x10000000     *)
(* gets 0x1000173A.                                                        *)
C6_CallOperandReachesFlagFunction ==
    remoteCode # << >> =>
        LET lo == remoteCode[18] + 256 * remoteCode[19]
            hi == remoteCode[20] + 256 * remoteCode[21]
            fromLo == spaceForShellcode[2] + 21
            fromHi == spaceForShellcode[1] + (fromLo \div 65536)
            sumLo == (fromLo % 65536) + lo
            sumHi == fromHi + hi + (sumLo \div 65536)
            toLo == baseAddr[2] + 14159
            toHi == baseAddr[1] + (toLo \div 65536)
        IN  /\ Len(remoteCode) = 23
            /\ remoteCode[17] = 232
            /\ sumLo % 65536 = toLo % 65536
            /\ sumHi % 65536 = toHi % 65536
            /\ (baseAddr = <<4096, 0>> /\ spaceForShellcode = <<0, 8192>>)
                 => <<remoteCode[18], remoteCode[19], remoteCode[20], remoteCode[21]>>
                      = <<58, 23, 0, 16>>

(* The stub has been written at 0x2000 for a module at 0x10000000.         *)
C6_Witness ==
    /\ remoteCode # << >>
    /\ baseAddr = <<4096, 0>>
    /\ spaceForShellcode = <<0, 8192>>
    /\ pc = "fam_loop"

(* C7: as the spec states it: once the question-mark overwrite, the        *)
(* argument write or the thread creation has failed for a coordinate,      *)
(* nothing but the two releases is issued any more, and FlagAllMines gets  *)
(* to return, with 1.  (Runs that stored past the end of mineLocations     *)
(* are left aside.)                                                        *)
C7_CoordFailureReturnsOne ==
    \A k \in 1..Len(trace) :
        (CoordFailedAt(k) /\ ~heapCorrupt) =>
            /\ \A j \in (k + 1)..Len(trace) : trace[j][1] = "VirtualFreeEx"
            /\ pc # "crashed"
            /\ pc = "fam_ret" => famRet = 1

(* C8: the remote operations FlagAllMines has issued so far always form a  *)
(* prefix of the injector order: code region allocated, argument region    *)
(* allocated, stub written, then per coordinate argument record written,   *)
(* thread launched, thread waited on, handle closed, and last the release  *)
(* of the code and of the argument region; a failed operation is followed  *)
(* by releases only.  The one-byte minefield write for a question-marked   *)
(* cell is not an injector operation.                                      *)
InjectorTrace ==
    LET Injector(e) == ~(e[1] = "WriteProcessMemory" /\ e[2] = "cell")
    IN  SelectSeq(trace, Injector)
InjectorStep(q, e) ==
    IF e[1] = "VirtualFreeEx" THEN
        IF q \in {"CodeAllocated", "CodeWritten", "Failed"} /\ e[2] = "code" THEN "CodeReleased"
        ELSE IF q = "CodeReleased" /\ e[2] = "args" THEN "Released"
        ELSE IF q = "ArgsFailed" /\ e[2] = "code" THEN "Released"
        ELSE "bad"
    ELSE IF q = "Idle" /\ e[1] = "VirtualAllocEx" /\ e[2] = "code"
        THEN IF e[4] THEN "CodeAllocated" ELSE "Released"
    ELSE IF q = "CodeAllocated" /\ e[1] = "VirtualAllocEx" /\ e[2] = "args"
        THEN IF e[4] THEN "ArgsAllocated" ELSE "ArgsFailed"
    ELSE IF q = "ArgsAllocated" /\ e[1] = "WriteProcessMemory" /\ e[2] = "code"
        THEN IF e[4] THEN "CodeWritten" ELSE "Failed"
    ELSE IF q = "CodeWritten" /\ e[1] = "WriteProcessMemory" /\ e[2] = "args"
        THEN IF e[4] THEN "ArgsWritten" ELSE "Failed"
    ELSE IF q = "ArgsWritten" /\ e[1] = "CreateRemoteThread"
        THEN IF e[4] THEN "ThreadLaunched" ELSE "Failed"
    ELSE IF q = "ThreadLaunched" /\ e[1] = "WaitForSingleObject" THEN "ThreadWaited"
    ELSE IF q = "ThreadWaited" /\ e[1] = "CloseHandle" THEN "CodeWritten"
    ELSE "bad"
RECURSIVE InjectorRun(_, _, _)
InjectorRun(q, tr, k) ==
    IF k > Len(tr) THEN q ELSE InjectorRun(InjectorStep(q, tr[k]), tr, k + 1)

C8_InjectorOrder ==
    /\ InjectorRun("Idle", InjectorTrace, 1) # "bad"
    /\ \A k \in 1..Len(trace) :
        (trace[k][1] = "CreateRemoteThread") =>
            /\ k > 1
            /\ trace[k - 1] = <<"WriteProcessMemory", "args", trace[k][3], TRUE>>
            /\ \E j \in 1..(k - 1) :
                trace[j] = <<"WriteProcessMemory", "code", 23, TRUE>>

(* FlagAllMines has returned after launching and joining two threads and   *)
(* asking for both releases.                                               *)
C8_Witness ==
    /\ pc = "fam_ret"
    /\ Len(threads) = 2
    /\ InjectorRun("Idle", InjectorTrace, 1) = "Released"

(* The argument region has just been written again, or a release has just *)
(* been asked for.                                                         *)
AtReuse ==
    /\ trace # << >>
    /\ LET e == trace[Len(trace)]
       IN  \/ e[1] = "WriteProcessMemory" /\ e[2] = "args"
           \/ e[1] = "VirtualFreeEx"

PrintedTiles == out.rows[1].tiles
CodedByte(b) == b >= 64 \/ (b % 16) \in {11, 13, 14, 15}

(* C10 as the spec states it: whatever the byte of the cell, its row is    *)
(* printed with exactly one tile, three characters wide.                   *)
C10_EveryByteOneTile ==
    out # << >> =>
        /\ Len(PrintedTiles) = width
        /\ \A t \in 1..Len(PrintedTiles) : Len(PrintedTiles[t]) = 3

(* C10: a cell byte with bit 0x80 or 0x40 set, or whose low four bits are  *)
(* 0xB, 0xD, 0xE or 0xF, is printed as exactly one tile, three characters  *)
(* wide, four for a revealed number of 10 or more (0x4A..0x7F); any other  *)
(* byte is printed as no tile at all.                                      *)
C10_CodedByteOneTile ==
    out # << >> =>
        LET b == mineField[33]
        IN  IF CodedByte(b)
            THEN /\ Len(PrintedTiles) = 1
                 /\ Len(PrintedTiles[1]) = IF b \in 74..127 THEN 4 ELSE 3
            ELSE Len(PrintedTiles) = 0

(* The field whose cell is a question mark without a mine (0x0D) has been  *)
(* printed.                                                                *)
C10_Witness ==
    /\ out # << >>
    /\ mineField[33] = 13
    /\ PrintedTiles = << <<" ", " ", "?">> >>

(* The tile of each cell state, and the cell state the five ordered rules *)
(* give a byte; low is what rules 4 and 5 compare with the sentinels.      *)
NumberChars(n) ==
    IF n < 10 THEN <<DigitChars[n + 1]>>
    ELSE <<DigitChars[(n \div 10) + 1], DigitChars[(n % 10) + 1]>>
RuledTiles(b, low) ==
    IF ExplodedByte(b) THEN << <<" ", "*", " ">> >>
    ELSE IF MineBit(b) THEN
        IF b = 142 THEN << <<" ", "B", "F">> >>
        ELSE IF b = 141 THEN << <<" ", "B", "?">> >>
        ELSE << <<" ", "B", " ">> >>
    ELSE IF (b \div 64) % 2 = 1 THEN
        IF b - 64 = 0 THEN << <<" ", "_", " ">> >>
        ELSE << <<" ">> \o NumberChars(b - 64) \o <<" ">> >>
    ELSE IF low = 15 THEN << <<" ", " ", " ">> >>
    ELSE IF low = 14 THEN << <<" ", " ", "F">> >>
    ELSE IF low = 13 THEN << <<" ", " ", "?">> >>
    ELSE IF low = 11 THEN << <<" ", "X", " ">> >>
    ELSE << >>

(* C11 as the spec states it: the tile printed for a byte is the one of    *)
(* the five ordered rules, rules 4 and 5 comparing the whole byte with the *)
(* sentinels 0x0F, 0x0E, 0x0D, 0x0B.                                       *)
C11_ClassifiedBySentinelEquality ==
    out # << >> => PrintedTiles = RuledTiles(mineField[33], mineField[33])

(* C11: the tile printed for a byte is the one of the five ordered rules,  *)
(* first match winning, where rules 4 and 5 look at the low four bits of   *)
(* the byte only: UnclickedBlank for 0xF, Flag for 0xE, QuestionMark for   *)
(* 0xD, WronglyFlagged for 0xB; a byte with mine and revealed bit set is a *)
(* mine variant.                                                           *)
C11_ClassifiedByLowNibble ==
    out # << >> => PrintedTiles = RuledTiles(mineField[33], mineField[33] % 16)

(* The byte 0xC3 (mine bit and revealed bit) has been printed, as a mine.  *)
C11_Witness ==
    /\ out # << >>
    /\ mineField[33] = 195
    /\ PrintedTiles = << <<" ", "B", " ">> >>

(* C12: the byte FlagAllMines writes over a question-marked mine is 0x8F;  *)
(* when the minefield is read and printed afterwards that cell is printed  *)
(* as a plain mine (" B ", neither " BF" nor " B?"), and when it is read   *)
(* and scanned by FlagAllMines again the cell is recorded as a mine and    *)
(* not taken for an exploded one.                                          *)
PostScan ==
    {"fam_alloc_code", "fam_alloc_args", "fam_write_stub", "fam_loop", "fam_qm",
     "fam_args", "fam_thread", "fam_wait", "fam_release", "fam_epilogue", "fam_ret"}
C12_NormalizedByteRoundTrip ==
    /\ \A c \in DOMAIN target.field :
        target.field[c] \notin RoundBytes => target.field[c] = 143
    /\ (pc = "close" /\ input = "2" /\ FieldCovers(mineField, width, height)) =>
        \A x \in 1..width : \A y \in 1..height :
            mineField[x + 32 * y] \notin RoundBytes =>
                out.rows[y].tiles[x] = <<" ", "B", " ">>
    /\ (pc \in PostScan /\ input = "3" /\ FieldCovers(mineField, width, height)
        /\ ~heapCorrupt) =>
        \A x \in 1..width : \A y \in 1..height :
            mineField[x + 32 * y] \notin RoundBytes =>
                /\ foundExplodedMine = 0
                /\ \E k \in 1..minesFound : mineLocations[k] = <<x, y>>

(* The minefield has been printed after FlagAllMines overwrote a question  *)
(* mark in it.                                                             *)
C12_Witness ==
    /\ pc = "close"
    /\ input = "2"
    /\ FieldCovers(mineField, width, height)
    /\ \E x \in 1..width : \E y \in 1..height :
        /\ mineField[x + 32 * y] = 143
        /\ out.rows[y].tiles[x] = <<" ", "B", " ">>

(* C13: as the spec states it, for the writes of FlagAllMines: once a      *)
(* WriteProcessMemory has transferred fewer bytes than asked for (the call *)
(* fails), no further write and no thread launch follows, and FlagAllMines *)
(* gets to return, with 1.  (Runs that stored past the end of              *)
(* mineLocations are left aside.)                                          *)
C13_ShortWriteReturnsOne ==
    \A k \in 1..Len(trace) :
        (trace[k][1] = "WriteProcessMemory" /\ trace[k][4] = FALSE /\ ~heapCorrupt) =>
            /\ \A j \in (k + 1)..Len(trace) :
                trace[j][1] \notin {"WriteProcessMemory", "CreateRemoteThread"}
            /\ pc # "crashed"
            /\ pc = "fam_ret" => famRet = 1

(* The first entry whose name is the requested name, character for        *)
(* character and of the same length; 0 when there is none.                 *)
ExactIndex(entries, name) ==
    IF \E k \in 1..Len(entries) : entries[k].name = name
    THEN CHOOSE k \in 1..Len(entries) :
            /\ entries[k].name = name
            /\ \A j \in 1..(k - 1) : entries[j].name # name
    ELSE 0
ExactEntry(snap, name, none) ==
    IF snap.valid /\ ExactIndex(snap.entries, name) # 0
    THEN snap.entries[ExactIndex(snap.entries, name)].id
    ELSE none

(* C14: as the spec states it: each lookup returns the first entry named   *)
(* exactly "winmine.exe", and the not-found value when there is none.      *)
C14_LookupsMatchExactly ==
    /\ pc # "getpid" => MineSweeperPID = ExactEntry(target.processes, mineSweeperName, 0)
    /\ (pc \in {"menu", "open"} /\ MineSweeperPID # 0) =>
          baseAddr = ExactEntry(target.modules, mineSweeperName, NULL32)

(* C15: as the spec states it: when the metadata have been read and width *)
(* and height are byte values, every index the grid loops read lies inside *)
(* the block read from the target and inside the receiving buffer.         *)
C15_GridInsideBlock ==
    (pc = "dispatch" /\ width <= 255 /\ height <= 255) =>
        \A k \in GridIndices(width, height) : k < 863 /\ k < 1024

(* C16: as the spec states it: after a successful SetMineMetadata width    *)
(* and height are the bytes the target holds, in 0..255.                   *)
C16_DimensionsAreTheBytesRead ==
    pc = "dispatch" =>
        /\ width = target.width
        /\ height = target.height
        /\ width \in 0..255
        /\ height \in 0..255

(* C17: in the flagging loop a location whose snapshot byte is FLAG | MINE *)
(* (0x8E) is skipped: the step that examines it issues no remote write and *)
(* no thread launch, leaves the target alone, and moves on to the next     *)
(* location.                                                               *)
LoopExamines ==
    /\ pc = "fam_loop"
    /\ i < numMines
    /\ pc' # "crashed"
    /\ (i' # i \/ pc' # "fam_loop")
C17_FlaggedLocationSkipped ==
    [][(LoopExamines /\ mineField'[CurrOffset(mineLocations'[i + 1])] = 142) =>
          /\ trace' = trace
          /\ threads' = threads
          /\ remoteArgs' = remoteArgs
          /\ target' = target
          /\ i' = i + 1
          /\ pc' = "fam_loop"]_vars

(* A flagged first location was passed over and the second one got its     *)
(* thread.                                                                 *)
C17_Witness ==
    /\ i >= 1
    /\ numMines = 2
    /\ mineLocations[1] # Uninit
    /\ CurrOffset(mineLocations[1]) \in DOMAIN mineField
    /\ mineField[CurrOffset(mineLocations[1])] = 142
    /\ Len(threads) = 1
    /\ threads[1].args = mineLocations[2]
    /\ mineLocations[2] # mineLocations[1]

(* C18: for a location whose snapshot byte is MINE | QUESTION_MARK (0x8D)  *)
(* a successful one-byte write of 0x8F to baseAddr + MINEFIELD_OFFSET +    *)
(* (x + 32*y) comes before the launch of the thread for that cell, with    *)
(* only the write of the arguments in between; for any other location no   *)
(* write into the minefield is issued.                                     *)
IsCellWrite(e) == e[1] = "WriteProcessMemory" /\ e[2] = "cell"
PlainMineWriteTo(e, c) ==
    /\ IsCellWrite(e)
    /\ e[3] = <<Add32(Add32(baseAddr, Word(21312)), Word(c[1] + 32 * c[2])), 143>>
SnapshotByte(c) == mineField[c[1] + 32 * c[2]]
C18_QuestionMarkOverwrittenFirst ==
    /\ \A j \in 1..Len(trace) :
          trace[j][1] = "CreateRemoteThread" =>
              /\ j >= 2
              /\ trace[j - 1] = <<"WriteProcessMemory", "args", trace[j][3], TRUE>>
              /\ IF SnapshotByte(trace[j][3]) = 141
                 THEN j >= 3 /\ PlainMineWriteTo(trace[j - 2], trace[j][3]) /\ trace[j - 2][4]
                 ELSE j >= 3 => ~IsCellWrite(trace[j - 2])
    /\ \A j \in 1..Len(trace) :
          IsCellWrite(trace[j]) =>
              \E k \in 1..numMines :
                  /\ mineLocations[k] # Uninit
                  /\ SnapshotByte(mineLocations[k]) = 141
                  /\ PlainMineWriteTo(trace[j], mineLocations[k])
                  /\ (j < Len(trace) /\ trace[j][4]) =>
                         trace[j + 1][1] = "WriteProcessMemory" /\ trace[j + 1][2] = "args"
                         /\ trace[j + 1][3] = mineLocations[k]

(* One run with a thread for a question-marked mine, after its overwrite,  *)
(* and a thread for a plain mine.                                          *)
C18_Witness ==
    /\ \E j \in 3..Len(trace) :
          /\ trace[j][1] = "CreateRemoteThread"
          /\ trace[j][4]
          /\ SnapshotByte(trace[j][3]) = 141
          /\ IsCellWrite(trace[j - 2])
    /\ \E j \in 1..Len(trace) :
          /\ trace[j][1] = "CreateRemoteThread"
          /\ trace[j][4]
          /\ SnapshotByte(trace[j][3]) = 143

(* C19: FlagAllMines always returns, even when an injected thread never    *)
(* finishes: every call of it eventually reaches its return statement.     *)
C19_FlagAllMinesReturns == <>(pc = "fam_ret")

(* C20: every exit path of GetProcessPID and of GetModuleBaseAddress that  *)
(* follows a successful CreateToolhelp32Snapshot closes the snapshot       *)
(* handle, so no snapshot handle is open after any sequence of lookups.    *)
C20_NoSnapshotLeftOpen == openSnapshots = 0

(* C21: every access to mineLocations is in bounds and initialised: the    *)
(* scan never stores at an index >= numMines, and the flagging loop only   *)
(* reads entries the scan stored (i < minesFound).                         *)
LoopBodyLabels == {"fam_qm", "fam_args", "fam_thread", "fam_wait"}
C21_MineLocationsAccessesInBounds ==
    /\ ~heapCorrupt
    /\ minesFound <= numMines
    /\ pc \in LoopBodyLabels => i < minesFound

(* C22: on every exit path of FlagAllMines the mineLocations buffer is     *)
(* freed exactly once: never more than one free, and exactly one by the    *)
(* time the function has returned.                                         *)
C22_MineLocationsFreedOnce ==
    /\ localFrees <= 1
    /\ pc = "fam_ret" => localFrees = 1

(* C23: menu actions 1 and 2 leave the target unchanged: while the         *)
(* selection is 1 or 2 no VirtualAllocEx, WriteProcessMemory,              *)
(* CreateRemoteThread or VirtualFreeEx is issued, no region is allocated,  *)
(* no thread runs in the target and the target's memory stays as it was;   *)
(* only selection 3 can do any of these.                                   *)
PrintOptions == {"1", "2"}
C23_PrintActionsOnlyRead ==
    [][input' \in PrintOptions =>
          /\ trace' = << >>
          /\ threads' = << >>
          /\ regions' = NoRegions
          /\ remoteCode' = << >>
          /\ remoteArgs' = << >>
          /\ input = input' => target' = target]_vars

(* Action 2 has read the target and printed a grid of at least one cell.   *)
C23_Witness ==
    /\ pc = "close"
    /\ input = "2"
    /\ width >= 1
    /\ height >= 1
    /\ FieldCovers(mineField, width, height)
    /\ Len(out.rows) = height
    /\ trace = << >>
====
